---------------------------- MODULE Spec2Model ----------------------------
(***************************************************************************)
(* A model of the FORE core: arithmetic in GF(p^2) for p = 2^31 - 1        *)
(* (core/field.rs), the chunked Haar and phi passes (core/transform.rs)    *)
(* and the frame system built on them (core/system.rs).                    *)
(*                                                                         *)
(* Machine words keep their width.  A u32 is a tuple of 4 bytes and a      *)
(* u64/usize a tuple of 8 bytes, least significant byte first, because     *)
(* the values of the program (p^2, 2^32 - 1, 2^64 - 1) exceed the integers *)
(* the model checker computes with.  Every word operation of the source    *)
(* (wrapping_add, >>, &, as u32, %) is an operator on such tuples.         *)
(*                                                                         *)
(* An intermediate value that is used more than once is named in a LET     *)
(* before it is passed on, as the source names it in a `let`.              *)
(***************************************************************************)
EXTENDS Integers, Sequences, FiniteSets, TLC

(***************************************************************************)
(* Machine words                                                           *)
(***************************************************************************)

\* the n-byte word holding the small natural v (v < 2^31)
RECURSIVE Word(_, _)
Word(v, n) ==
    IF n = 0 THEN <<>> ELSE <<v % 256>> \o Word(v \div 256, n - 1)

U32(v) == Word(v, 4)
U64(v) == Word(v, 8)

\* the 4-byte word b3 b2 b1 b0 (written most significant byte first, as in 0xDEADBEEF)
Hex32(b3, b2, b1, b0) == <<b0, b1, b2, b3>>

\* x as a wider or narrower word of n bytes: `x as u64` zero-extends, `x as u32` truncates
Cast(x, n) == [i \in 1..n |-> IF i <= Len(x) THEN x[i] ELSE 0]

IsZero(x) == \A i \in 1..Len(x) : x[i] = 0

\* column sums to bytes: the carry of each column moves into the next one, and the
\* carry out of the last column is dropped (arithmetic modulo 2^(8 * Len(cols)))
RECURSIVE Carry(_, _, _)
Carry(cols, i, c) ==
    IF i > Len(cols) THEN <<>>
    ELSE LET t == cols[i] + c
         IN  <<t % 256>> \o Carry(cols, i + 1, t \div 256)

\* x + y modulo 2^(8 * Len(x)); both words have the same width
WrappingAdd(x, y) ==
    LET cols == [i \in 1..Len(x) |-> x[i] + y[i]]
    IN  Carry(cols, 1, 0)

\* x - y modulo 2^(8 * Len(x)), as x + ~y + 1
WrappingSub(x, y) ==
    LET cols == [i \in 1..Len(x) |-> x[i] + (255 - y[i])]
    IN  Carry(cols, 1, 1)

\* 0 - x modulo 2^(8 * Len(x))
WrappingNeg(x) ==
    LET zero == [i \in 1..Len(x) |-> 0]
    IN  WrappingSub(zero, x)

\* x < y on words of the same width: decided by the most significant byte that differs
RECURSIVE LtFrom(_, _, _)
LtFrom(x, y, i) ==
    IF i = 0 THEN FALSE
    ELSE IF x[i] # y[i] THEN x[i] < y[i]
    ELSE LtFrom(x, y, i - 1)

Lt(x, y) == LtFrom(x, y, Len(x))
Ge(x, y) == ~Lt(x, y)
Gt(x, y) == Lt(y, x)

\* column k of the schoolbook product: the sum of x[i] * y[k + 1 - i] over i >= from
RECURSIVE ColSum(_, _, _, _)
ColSum(x, y, k, from) ==
    IF from > Len(x) THEN 0
    ELSE (IF k >= from /\ k + 1 - from <= Len(y) THEN x[from] * y[k + 1 - from] ELSE 0)
         + ColSum(x, y, k, from + 1)

\* the exact product of x and y, Len(x) + Len(y) bytes wide (never overflows)
WideMul(x, y) ==
    LET cols == [k \in 1..(Len(x) + Len(y)) |-> ColSum(x, y, k, 1)]
    IN  Carry(cols, 1, 0)

Pow2(n) == 2 ^ n

\* x >> s on a word (s less than the width in bits); zeros enter from the top
Shr(x, s) ==
    LET q  == s \div 8
        lo == Pow2(s % 8)
        hi == Pow2(8 - (s % 8))
        n  == Len(x)
    IN  [i \in 1..n |->
            (IF i + q <= n THEN x[i + q] \div lo ELSE 0)
            + (IF i + q + 1 <= n THEN (x[i + q + 1] % lo) * hi ELSE 0)]

\* x & ((1 << s) - 1): the low s bits of x
LowBits(x, s) ==
    LET q  == s \div 8
        lo == Pow2(s % 8)
    IN  [i \in 1..Len(x) |->
            IF i <= q THEN x[i] ELSE IF i = q + 1 THEN x[i] % lo ELSE 0]

\* bit i of x (bit 0 is the least significant)
Bit(x, i) == (x[(i \div 8) + 1] \div Pow2(i % 8)) % 2

\* bitwise operations, byte by byte
RECURSIVE And8(_, _, _)
And8(a, b, n) ==
    IF n = 0 THEN 0
    ELSE ((a % 2) * (b % 2)) + 2 * And8(a \div 2, b \div 2, n - 1)

BitAnd(x, y) == [i \in 1..Len(x) |-> And8(x[i], y[i], 8)]
BitNot(x) == [i \in 1..Len(x) |-> 255 - x[i]]
BitOr(x, y) == [i \in 1..Len(x) |-> x[i] + y[i] - And8(x[i], y[i], 8)]

\* the number of bits of x up to and including its highest set bit (0 for x = 0):
\* `32 - e.leading_zeros()` for a u32
RECURSIVE BitLenFrom(_, _)
BitLenFrom(x, i) ==
    IF i = 0 THEN 0
    ELSE IF Bit(x, i - 1) = 1 THEN i
    ELSE BitLenFrom(x, i - 1)

BitLength(x) == BitLenFrom(x, 8 * Len(x))

\* x % m for words of the same width, by repeated subtraction (the quotient is small
\* wherever the source takes a remainder)
RECURSIVE Rem(_, _)
Rem(x, m) ==
    IF Lt(x, m) THEN x
    ELSE LET d == WrappingSub(x, m)
         IN  Rem(d, m)

(***************************************************************************)
(* core/field.rs                                                           *)
(***************************************************************************)

\* P = 2^31 - 1 = 0x7FFFFFFF
P == Hex32(127, 255, 255, 255)

PHI_A == U32(0)
PHI_B == U32(1)

\* P_SQUARED = (P as u64) * (P as u64)
P_SQUARED == WideMul(P, P)

\* GROUP_ORDER = P_SQUARED - 1
GROUP_ORDER == WrappingSub(P_SQUARED, U64(1))

GFp2(a, b) == [a |-> a, b |-> b]

\* modp(x: u64) -> u32
modp(x) ==
    LET hi1 == Shr(x, 31)
        lo1 == LowBits(x, 31)
        r1  == WrappingAdd(hi1, lo1)
        hi2 == Shr(r1, 31)
        lo2 == LowBits(r1, 31)
        r2  == WrappingAdd(hi2, lo2)
        r   == Cast(r2, 4)
    IN  IF Ge(r, P) THEN WrappingSub(r, P) ELSE r

\* mul_mod(a: u32, b: u32) -> u32
mul_mod(a, b) ==
    LET prod == WideMul(a, b)
        r    == modp(prod)
    IN  IF Ge(r, P) THEN WrappingSub(r, P) ELSE r

\* add_mod(a: u32, b: u32) -> u32
add_mod(a, b) ==
    LET s == WrappingAdd(a, b)
    IN  IF Ge(s, P) THEN WrappingSub(s, P) ELSE s

\* sub_mod(a: u32, b: u32) -> u32
sub_mod(a, b) ==
    LET d == WrappingSub(a, b)
    IN  IF Gt(d, a) THEN WrappingAdd(d, P) ELSE d

\* mul_gfp2(x, y): (a + b*x)(c + d*x) with x^2 = x + 1
mul_gfp2(x, y) ==
    LET ac    == mul_mod(x.a, y.a)
        bd    == mul_mod(x.b, y.b)
        ad    == mul_mod(x.a, y.b)
        bc    == mul_mod(x.b, y.a)
        ad_bc == add_mod(ad, bc)
    IN  GFp2(add_mod(ac, bd), add_mod(ad_bc, bd))

\* to_gfp2(d: u32)
\* a conversion that keeps seven bits of the byte
to_gfp2_seven_bits(d) == GFp2(LowBits(d, 7), U32(0))

to_gfp2(d) == GFp2(Rem(d, P), U32(0))

\* negative_exponent(k: u32) -> u32
\* an exponent that is reduced but not negated
negative_exponent_unnegated(k) ==
    LET k64   == Cast(k, 8)
        k_mod == Rem(k64, GROUP_ORDER)
    IN  Cast(k_mod, 4)

negative_exponent(k) ==
    LET k64       == Cast(k, 8)
        k_mod     == Rem(k64, GROUP_ORDER)
        k_reduced == Cast(k_mod, 4)
        k_wide    == Cast(k_reduced, 8)
        diff      == WrappingSub(GROUP_ORDER, k_wide)
        neg       == Rem(diff, GROUP_ORDER)
    IN  Cast(neg, 4)

\* a & b for a mask that is all ones or all zeros, and the select built from it
Select(mask, old, new) ==
    LET keep == BitAnd(BitNot(mask), old)
        take == BitAnd(mask, new)
    IN  BitOr(keep, take)

\* one iteration of the loop of exp_phi, for bit i of e, from s = (result, current)
exp_step(e, i, s) ==
    LET bit  == U32(Bit(e, i))
        mask == WrappingNeg(bit)
        temp == mul_gfp2(s.result, s.current)
    IN  [result  |-> GFp2(Select(mask, s.result.a, temp.a),
                          Select(mask, s.result.b, temp.b)),
         current |-> mul_gfp2(s.current, s.current)]

\* iterations lo .. hi - 1 of the loop of exp_phi, in order, from s = (result, current).
\* The range is run as its first half followed by its second half; the singleton set
\* hands the pair reached after the first half to the second half as a value.
RECURSIVE exp_loop(_, _, _, _)
exp_loop(e, lo, hi, s) ==
    IF hi <= lo THEN s
    ELSE IF hi = lo + 1 THEN exp_step(e, lo, s)
    ELSE LET mid == (lo + hi) \div 2
         IN  CHOOSE r \in {exp_loop(e, mid, hi, m) : m \in {exp_loop(e, lo, mid, s)}} : TRUE

\* exp_phi(base, e: u32)
exp_phi(base, e0) ==
    LET e64   == Cast(e0, 8)
        e_mod == Rem(e64, GROUP_ORDER)
        e     == Cast(e_mod, 4)
        bits  == BitLength(e)
        init  == [result |-> GFp2(U32(1), U32(0)), current |-> base]
    IN  CHOOSE r \in {exp_loop(ev, 0, bits, s).result : ev \in {e}, s \in {init}} : TRUE

\* exp_phi_inverse(base, k: u32)
exp_phi_inverse(base, k) ==
    LET neg == negative_exponent(k)
    IN  exp_phi(base, neg)

(***************************************************************************)
(* core/transform.rs                                                       *)
(***************************************************************************)

Min(a, b) == IF a <= b THEN a ELSE b
Max(a, b) == IF a >= b THEN a ELSE b

\* the constants of get_chunk_size (sizes and indices that stay small are integers)
TARGET_CHUNK_SIZE == 256 * 1024
MIN_CHUNK_SIZE == 4 * 1024

\* a chunk size that shares the target among the CPUs
chunk_size_per_cpu(cpu_count) ==
    Max(Min(TARGET_CHUNK_SIZE, TARGET_CHUNK_SIZE \div cpu_count), MIN_CHUNK_SIZE)

\* the value the Once closure of get_chunk_size stores, on a machine with cpu_count CPUs
chunk_size_init(cpu_count) ==
    Max(Min(TARGET_CHUNK_SIZE, TARGET_CHUNK_SIZE * cpu_count), MIN_CHUNK_SIZE)

\* get_chunk_size(): `cached` is the static CHUNK_SIZE (0 until the Once has run)
get_chunk_size(cached, cpu_count) ==
    IF cached = 0 THEN chunk_size_init(cpu_count) ELSE cached

\* the field negation both passes of the source write: (sub_mod(0, v.a), sub_mod(0, v.b))
\* a negation of the first component only
negate_first_only(v) == GFp2(sub_mod(U32(0), v.a), v.b)

negate(v) == GFp2(sub_mod(U32(0), v.a), sub_mod(U32(0), v.b))

\* the closure binary_haar_transform applies to the element at index i of its chunk
\* a pass that negates the even indices
haar_element_even(i, v) == IF i % 2 = 0 THEN negate(v) ELSE v

haar_element(i, v) == IF i % 2 = 1 THEN negate(v) ELSE v

\* the chunk an element at global index g falls in, and its index within that chunk
chunk_of(g, chunk_size) == g \div chunk_size
local_index(g, chunk_size) == g % chunk_size

\* binary_haar_transform(data) with chunks of chunk_size elements; data[g + 1] is the
\* element at global index g
binary_haar_transform(data, chunk_size) ==
    [j \in 1..Len(data) |-> haar_element(local_index(j - 1, chunk_size), data[j])]

\* apply_phi_transform(data, phi_k): an empty slice is left alone (the call returns None)
apply_phi_transform(data, phi) ==
    IF Len(data) = 0 THEN data
    ELSE [j \in 1..Len(data) |-> mul_gfp2(data[j], phi)]

(***************************************************************************)
(* core/system.rs                                                          *)
(***************************************************************************)

\* a small word as an integer
ToInt(w) == w[1] + 256 * w[2] + 65536 * w[3]

\* ForeSystem::new(key)
ForeSystem_new(key) ==
    LET phi == GFp2(PHI_A, PHI_B)
    IN  [phi_k |-> exp_phi(phi, key), phi_neg_k |-> exp_phi_inverse(phi, key)]

\* to_frequency_domain(&self, data)
to_frequency_domain(self, data, chunk_size) ==
    LET haar == binary_haar_transform(data, chunk_size)
    IN  apply_phi_transform(haar, self.phi_k)

\* process_data(&self, data: &[u8])
process_data(self, bytes, chunk_size) ==
    LET result == [j \in 1..Len(bytes) |-> to_gfp2(U32(bytes[j]))]
    IN  to_frequency_domain(self, result, chunk_size)

\* the loop of reconstruct from index i on: the characters pushed for aligned[i ..]
RECURSIVE reconstruct_from(_, _)
reconstruct_from(aligned, i) ==
    IF i >= Len(aligned) THEN <<>>
    ELSE LET v   == aligned[i + 1]
             val == IF i % 2 = 1 THEN sub_mod(U32(0), v.a) ELSE v.a
         IN  (IF IsZero(v.b) /\ Lt(val, U32(128)) THEN <<val[1]>> ELSE <<>>)
             \o reconstruct_from(aligned, i + 1)

\* reconstruct(&self, data) -> String, as the sequence of its character codes
reconstruct(self, data) ==
    LET aligned == apply_phi_transform(data, self.phi_neg_k)
    IN  reconstruct_from(aligned, 0)

\* 1 << level on a usize: the shift amount is taken modulo 64 when it is not checked
shl_one(level) ==
    LET s == level % 64
    IN  [i \in 1..8 |-> IF i = (s \div 8) + 1 THEN Pow2(s % 8) ELSE 0]

\* edit_frequency(&self, data, level, pos, new_value): the outcomes of the call.
\* `1 << level` overflows for level >= 64 and `pos * span` when the product needs more
\* than 64 bits: a build with overflow checks panics there, a build without them
\* wraps.  The result is the set of [panicked, data] the two builds can produce.
edit_frequency(self, data, level, pos, new_value) ==
    LET span        == shl_one(level)
        product     == WideMul(pos, span)
        start       == Cast(product, 8)
        overflow    == level >= 64 \/ product # Cast(start, 16)
        len         == U64(Len(data))
        half        == Shr(span, 1)
        pair        == WrappingAdd(start, half)
        transformed == mul_gfp2(new_value, self.phi_k)
        first       == IF Lt(start, len)
                       THEN [data EXCEPT ![ToInt(start) + 1] = transformed]
                       ELSE data
        second      == IF Lt(start, len) /\ Lt(pair, len)
                       THEN [first EXCEPT ![ToInt(pair) + 1] = negate(transformed)]
                       ELSE first
    IN  IF overflow
        THEN {[panicked |-> TRUE, data |-> data], [panicked |-> FALSE, data |-> second]}
        ELSE {[panicked |-> FALSE, data |-> second]}

\* the levels the loop of verify_relationships visits: (1 << level) <= data.len()
RECURSIVE verify_levels(_, _)
verify_levels(len, level) ==
    IF Pow2(level) <= len THEN {level} \cup verify_levels(len, level + 1) ELSE {}

\* the body of the loops: every pair (start, start + span / 2) that is in bounds sums
\* to zero in both components
pairs_sum_to_zero(data, levels) ==
    \A level \in levels :
        LET span == Pow2(level)
        IN  \A pos \in 0..((Len(data) \div span) - 1) :
                LET start == pos * span
                IN  start + (span \div 2) < Len(data) =>
                        LET first  == data[start + 1]
                            second == data[start + (span \div 2) + 1]
                            sum    == add_mod(first.a, second.a)
                            sum_b  == add_mod(first.b, second.b)
                        IN  ~(~IsZero(sum) \/ ~IsZero(sum_b))

\* a check that starts at level 1
verify_relationships_from_level_one(data) ==
    pairs_sum_to_zero(data, verify_levels(Len(data), 1))

\* verify_relationships(&self, data): false at the first pair that does not sum to
\* zero, true when the loops run out
verify_relationships(data) ==
    pairs_sum_to_zero(data, verify_levels(Len(data), 0))

(***************************************************************************)
(* The program: a caller builds one ForeSystem, encodes bytes into a       *)
(* sequence it owns, may edit that sequence in place, and reads it back    *)
(* with reconstruct and verify_relationships.  The system is immutable, so *)
(* every further sequence of the same caller starts from the states shown  *)
(* here; the model follows one sequence through one edit.                  *)
(***************************************************************************)

VARIABLES
    CHUNK_SIZE,   \* the static CHUNK_SIZE of get_chunk_size (0 until its Once has run)
    pc,           \* "built": no sequence yet; "ready": the caller holds a sequence;
                  \* "panicked": a call has panicked
    key,          \* the key the system was built from (the argument of new)
    system,       \* the ForeSystem: [phi_k, phi_neg_k]
    input,        \* the bytes given to process_data
    data,         \* the caller's sequence of field elements
    edit,         \* the edit_frequency call made on data: its arguments and the
                  \* sequence it was given, or NoEdit
    last          \* the latest call and what it returned

sysVars == <<CHUNK_SIZE, pc, key, system, input, data, edit, last>>

VARIABLES
    args,         \* the arguments of a call of a field function
    ret           \* the function called and the value it returned, or NoCall

fieldVars == <<args, ret>>

VARIABLES
    hpc,          \* binary_haar_transform: "idle", "running" (inside par_chunks_mut)
                  \* or "done"
    hlen,         \* the length of the sequence given to it
    hdata,        \* that sequence, at the indices of Samples(hlen)
    pending,      \* the chunks no worker has taken yet
    workers       \* per worker: the chunk it is in and the sampled indices of that
                  \* chunk it has still to visit, or Idle

haarVars == <<hpc, hlen, hdata, pending, workers>>

NoCall == [fn |-> "none"]
Idle == [chunk |-> -1, todo |-> {}]

\* the field functions and the Haar pass at rest, while the frame system runs
FieldAtRest == args = NoCall /\ ret = NoCall
HaarAtRest ==
    hpc = "idle" /\ hlen = 0 /\ hdata = <<>> /\ pending = {} /\ workers = <<>>

\* the keys, bytes, CPU counts and edits the calls are drawn from
Keys == {U32(0), U32(1), Hex32(222, 173, 190, 239), Hex32(255, 255, 255, 255)}
Bytes == {0, 84, 212}
CpuCounts == {1, 3, 64}
MaxLen == 2

RECURSIVE SeqsOfLen(_, _)
SeqsOfLen(S, n) ==
    IF n = 0 THEN {<<>>}
    ELSE {<<b>> \o t : b \in S, t \in SeqsOfLen(S, n - 1)}

\* the bytes of "Test message"
TestMessage == <<84, 101, 115, 116, 32, 109, 101, 115, 115, 97, 103, 101>>

Inputs == UNION {SeqsOfLen(Bytes, n) : n \in 0..MaxLen} \cup {TestMessage}

\* The edits tried: levels below, at and above the width of a usize, positions 0, 1
\* and 2^63, and the new values (5, 0) and (p, 0), whose first component is not
\* reduced.
Five == GFp2(U32(5), U32(0))
Unreduced == GFp2(P, U32(0))
EditCall(level, pos, new_value) == [level |-> level, pos |-> pos, new_value |-> new_value]
EditCalls ==
    {EditCall(0, U64(0), Five), EditCall(0, U64(1), Five),
     EditCall(1, U64(0), Five), EditCall(1, U64(1), Five),
     EditCall(2, U64(0), Five),
     EditCall(64, U64(0), Five), EditCall(64, U64(1), Five),
     EditCall(0, <<0, 0, 0, 0, 0, 0, 0, 128>>, Five),
     EditCall(1, <<0, 0, 0, 0, 0, 0, 0, 128>>, Five),
     EditCall(1, U64(0), Unreduced)}

NoEdit == [level |-> -1]

\* the chunk sizes get_chunk_size() can return, over the machines the program runs on
ChunkSizes == {get_chunk_size(CHUNK_SIZE, cpu_count) : cpu_count \in CpuCounts}

\* ForeSystem::new(key): the state after construction
Init ==
    /\ CHUNK_SIZE = 0
    /\ pc = "built"
    /\ key \in Keys
    /\ system = ForeSystem_new(key)
    /\ input = <<>>
    /\ data = <<>>
    /\ edit = NoEdit
    /\ last = [op |-> "new"]
    /\ FieldAtRest
    /\ HaarAtRest

\* process_data(bytes): the caller's sequence is the encoding of bytes
ProcessData(bytes) ==
    /\ pc = "built"
    /\ \E chunk_size \in ChunkSizes :
           /\ CHUNK_SIZE' = chunk_size
           /\ data' = process_data(system, bytes, chunk_size)
    /\ pc' = "ready"
    /\ input' = bytes
    /\ last' = [op |-> "process_data"]
    /\ UNCHANGED <<key, system, edit, fieldVars, haarVars>>

\* edit_frequency(data, level, pos, new_value), in place
EditFrequency(level, pos, new_value) ==
    /\ pc = "ready"
    /\ edit = NoEdit
    /\ \E out \in edit_frequency(system, data, level, pos, new_value) :
           /\ data' = out.data
           /\ pc' = IF out.panicked THEN "panicked" ELSE "ready"
    /\ edit' = [level |-> level, pos |-> pos, new_value |-> new_value, before |-> data]
    /\ last' = [op |-> "edit_frequency"]
    /\ UNCHANGED <<CHUNK_SIZE, key, system, input, fieldVars, haarVars>>

\* reconstruct(data): apply_phi_transform reads the chunk size unless data is empty
Reconstruct ==
    /\ pc = "ready"
    /\ \E chunk_size \in ChunkSizes :
           CHUNK_SIZE' = IF Len(data) = 0 THEN CHUNK_SIZE ELSE chunk_size
    /\ last' = [op |-> "reconstruct", text |-> reconstruct(system, data)]
    /\ UNCHANGED <<pc, key, system, input, data, edit, fieldVars, haarVars>>

\* verify_relationships(data)
VerifyRelationships ==
    /\ pc = "ready"
    /\ last' = [op |-> "verify_relationships", ret |-> verify_relationships(data)]
    /\ UNCHANGED <<CHUNK_SIZE, pc, key, system, input, data, edit, fieldVars, haarVars>>

Next ==
    \/ \E bytes \in Inputs : ProcessData(bytes)
    \/ \E call \in EditCalls : EditFrequency(call.level, call.pos, call.new_value)
    \/ Reconstruct
    \/ VerifyRelationships

vars == <<sysVars, fieldVars, haarVars>>

Spec == Init /\ [][Next]_vars

(***************************************************************************)
(* The field functions, called on their own with arguments drawn from the  *)
(* whole range of their types.                                             *)
(***************************************************************************)

\* 0, 1, an ordinary value, and the values around p, 2p and 2^32
Scalars ==
    {U32(0), U32(1), Hex32(18, 52, 86, 120),
     Hex32(127, 255, 255, 254), P, Hex32(128, 0, 0, 0),
     Hex32(255, 255, 255, 254), Hex32(255, 255, 255, 255)}

\* 64-bit values: 0, p, 2^32 - 1, p^2, 2^62, 2^63 and 2^64 - 1
Wides ==
    {U64(0), Cast(P, 8), Cast(Hex32(255, 255, 255, 255), 8), P_SQUARED,
     <<0, 0, 0, 0, 0, 0, 0, 64>>, <<0, 0, 0, 0, 0, 0, 0, 128>>,
     <<255, 255, 255, 255, 255, 255, 255, 255>>}

\* phi, and the elements (2, 0) and (3, 5)
Bases == {GFp2(PHI_A, PHI_B), GFp2(U32(2), U32(0)), GFp2(U32(3), U32(5))}
Exponents == {U32(0), U32(1), Hex32(222, 173, 190, 239)}

FieldArgs ==
    {[kind |-> "scalars", a |-> a, b |-> b] : a \in Scalars, b \in Scalars}
        \cup {[kind |-> "wide", x |-> x] : x \in Wides}
        \cup {[kind |-> "power", base |-> base, k |-> k] : base \in Bases, k \in Exponents}

\* a system built from key 0 that has been given no bytes
SysAtRest ==
    /\ CHUNK_SIZE = 0
    /\ pc = "built"
    /\ key = U32(0)
    /\ system = ForeSystem_new(key)
    /\ input = <<>>
    /\ data = <<>>
    /\ edit = NoEdit
    /\ last = [op |-> "new"]

InitField ==
    /\ SysAtRest
    /\ HaarAtRest
    /\ args \in FieldArgs
    /\ ret = NoCall

Return(fn, value) ==
    /\ ret = NoCall
    /\ ret' = [fn |-> fn, value |-> value]
    /\ UNCHANGED <<args, sysVars, haarVars>>

AddMod == args.kind = "scalars" /\ Return("add_mod", add_mod(args.a, args.b))
SubMod == args.kind = "scalars" /\ Return("sub_mod", sub_mod(args.a, args.b))
MulMod == args.kind = "scalars" /\ Return("mul_mod", mul_mod(args.a, args.b))
Modp == args.kind = "wide" /\ Return("modp", modp(args.x))
ExpPhi == args.kind = "power" /\ Return("exp_phi", exp_phi(args.base, args.k))
ExpPhiInverse ==
    args.kind = "power" /\ Return("exp_phi_inverse", exp_phi_inverse(args.base, args.k))

NextField == AddMod \/ SubMod \/ MulMod \/ Modp \/ ExpPhi \/ ExpPhiInverse

SpecField == InitField /\ [][NextField]_vars

(***************************************************************************)
(* binary_haar_transform as rayon runs it: par_chunks_mut hands the chunks *)
(* to the workers of the pool in any order, and each worker walks its      *)
(* chunk from local index 0 up while the others walk theirs.  The sequence *)
(* given holds (i, i + 1) at index i; the model carries it at the sampled  *)
(* indices: the first two and last two of the sequence and of every        *)
(* stretch of TARGET_CHUNK_SIZE elements.                                  *)
(***************************************************************************)

MaxChunks == 2
Workers == {1, 2}

\* lengths within one chunk, at a chunk boundary, and beyond it
HaarLens ==
    {c * TARGET_CHUNK_SIZE + r : c \in 0..MaxChunks, r \in {0, 1, 2, 1000}}

Samples(n) ==
    {g \in {c * TARGET_CHUNK_SIZE + d : c \in 0..(MaxChunks + 1), d \in {-2, -1, 0, 1}}
              \cup {n - 2, n - 1} : 0 <= g /\ g < n}

element(i) == GFp2(U32(i), U32(i + 1))

\* the chunks of par_chunks_mut(chunk_size) over n elements
chunks(n, chunk_size) == {c \in 0..(n \div chunk_size) : c * chunk_size < n}

SetMin(S) == CHOOSE m \in S : \A o \in S : m <= o

InitHaar ==
    /\ SysAtRest
    /\ FieldAtRest
    /\ hpc = "idle"
    /\ hlen \in HaarLens
    /\ hdata = [g \in Samples(hlen) |-> element(g)]
    /\ pending = {}
    /\ workers = [w \in Workers |-> Idle]

\* binary_haar_transform(data) is called: get_chunk_size(), then par_chunks_mut
HaarCall(cpu_count) ==
    /\ hpc = "idle"
    /\ CHUNK_SIZE' = get_chunk_size(CHUNK_SIZE, cpu_count)
    /\ pending' = chunks(hlen, CHUNK_SIZE')
    /\ hpc' = "running"
    /\ UNCHANGED <<pc, key, system, input, data, edit, last, fieldVars, hlen, hdata, workers>>

\* a worker takes a chunk
TakeChunk(w, c) ==
    /\ hpc = "running"
    /\ workers[w] = Idle
    /\ c \in pending
    /\ pending' = pending \ {c}
    /\ workers' = [workers EXCEPT ![w] =
           [chunk |-> c, todo |-> {g \in Samples(hlen) : chunk_of(g, CHUNK_SIZE) = c}]]
    /\ UNCHANGED <<sysVars, fieldVars, hpc, hlen, hdata>>

\* a worker walks its chunk up to and over the next sampled element of it
VisitElement(w) ==
    /\ hpc = "running"
    /\ workers[w].todo # {}
    /\ LET g == SetMin(workers[w].todo)
           i == local_index(g, CHUNK_SIZE)
       IN  /\ hdata' = [hdata EXCEPT ![g] = haar_element(i, hdata[g])]
           /\ workers' = [workers EXCEPT ![w].todo = workers[w].todo \ {g}]
    /\ UNCHANGED <<sysVars, fieldVars, hpc, hlen, pending>>

\* a worker reaches the end of its chunk
FinishChunk(w) ==
    /\ hpc = "running"
    /\ workers[w] # Idle
    /\ workers[w].todo = {}
    /\ workers' = [workers EXCEPT ![w] = Idle]
    /\ UNCHANGED <<sysVars, fieldVars, hpc, hlen, hdata, pending>>

\* for_each returns: every chunk has been walked
HaarReturn ==
    /\ hpc = "running"
    /\ pending = {}
    /\ \A w \in Workers : workers[w] = Idle
    /\ hpc' = "done"
    /\ UNCHANGED <<sysVars, fieldVars, hlen, hdata, pending, workers>>

NextHaar ==
    \/ \E cpu_count \in CpuCounts : HaarCall(cpu_count)
    \/ \E w \in Workers, c \in pending : TakeChunk(w, c)
    \/ \E w \in Workers : VisitElement(w)
    \/ \E w \in Workers : FinishChunk(w)
    \/ HaarReturn

SpecHaar == InitHaar /\ [][NextHaar]_vars

(***************************************************************************)
(* Properties of the frame system                                          *)
(***************************************************************************)

Zero == GFp2(U32(0), U32(0))
One == GFp2(U32(1), U32(0))

\* the value an edit writes: new_value in the frequency domain
Transformed == mul_gfp2(edit.new_value, system.phi_k)

\* pos * 2^level over the unbounded integers is below the length of the edited
\* sequence.  Only a pos below the length can qualify, and for pos >= 1 only a level
\* below the length, because 2^level > level.
ExactInBounds ==
    LET n == Len(edit.before)
    IN  \E q \in 0..(n - 1) :
            /\ edit.pos = U64(q)
            /\ q = 0 \/ (edit.level < n /\ q * Pow2(edit.level) < n)

\* that start, when ExactInBounds holds
ExactStart ==
    LET q == CHOOSE r \in 0..(Len(edit.before) - 1) : edit.pos = U64(r)
    IN  IF q = 0 THEN 0 ELSE q * Pow2(edit.level)

\* C1: reconstruct(process_data(x)) is x, character for character, for every key and
\* every x whose bytes are all below 128
C1_RoundTrip ==
    (last.op = "reconstruct" /\ edit = NoEdit /\ \A i \in 1..Len(input) : input[i] < 128)
        => last.text = input

C1_Witness ==
    /\ last.op = "reconstruct"
    /\ edit = NoEdit
    /\ key = Hex32(222, 173, 190, 239)
    /\ input = TestMessage
    /\ last.text = TestMessage

\* C2: the system holds phi_k and phi_neg_k whose product is the identity (1, 0), in
\* every state of its life, for every key
C2_InverseLaw == mul_gfp2(system.phi_k, system.phi_neg_k) = One

C2_Witness ==
    /\ key = Hex32(255, 255, 255, 255)
    /\ system.phi_neg_k = GFp2(PHI_A, PHI_B)
    /\ system.phi_k # system.phi_neg_k
    /\ last.op = "edit_frequency"

\* C3: an edit whose start pos * 2^level (over the unbounded integers) is out of
\* bounds changes no element and does not panic
C3_OutOfBoundsNoOp ==
    (edit # NoEdit /\ ~ExactInBounds) => (data = edit.before /\ pc # "panicked")

\* C4: after an edit whose start is in bounds, the element at start is
\* mul_gfp2(new_value, phi_k), at every level from 0 on
C4_WritesAtStart ==
    (edit # NoEdit /\ ExactInBounds)
        => (pc # "panicked" /\ data[ExactStart + 1] = Transformed)

\* C5: after an edit at level >= 1 with start + 2^(level-1) in bounds, the elements at
\* start and at start + 2^(level-1) sum to (0, 0)
C5_Precondition ==
    /\ edit # NoEdit
    /\ edit.level >= 1
    /\ ExactInBounds
    /\ edit.level <= Len(edit.before)
    /\ ExactStart + Pow2(edit.level - 1) < Len(edit.before)

C5_AntisymmetricPair ==
    C5_Precondition =>
        LET first  == data[ExactStart + 1]
            second == data[ExactStart + Pow2(edit.level - 1) + 1]
        IN  /\ pc # "panicked"
            /\ add_mod(first.a, second.a) = U32(0)
            /\ add_mod(first.b, second.b) = U32(0)

C5_Witness ==
    /\ C5_Precondition
    /\ last.op = "edit_frequency"
    /\ edit.level = 1
    /\ edit.pos = U64(0)
    /\ edit.new_value = Five
    /\ data[1] # Zero
    /\ data[2] = negate(data[1])

\* C9: two different inputs of the same length are encoded into sequences that differ
\* exactly at the indices where the inputs differ (so in at least one element)
C9_Distinct ==
    last.op = "process_data" =>
        \A other \in Inputs :
            (Len(other) = Len(input) /\ other # input) =>
                \A encoded \in {process_data(system, other, CHUNK_SIZE)} :
                    /\ encoded # data
                    /\ \A i \in 1..Len(input) :
                           (encoded[i] # data[i]) <=> (other[i] # input[i])

C9_Witness ==
    /\ last.op = "process_data"
    /\ input = <<84, 212>>
    /\ \E other \in Inputs : Len(other) = 2 /\ other[1] = 84 /\ other[2] = 84

\* C10: verify_relationships returns true exactly for the sequences whose elements
\* are all (0, 0): it is false for the encoding of bytes that are not all zero, and
\* false after an edit that wrote a non-zero value
C10_VerifyIffAllZero ==
    last.op = "verify_relationships" =>
        /\ last.ret <=> (\A i \in 1..Len(data) : data[i] = Zero)
        /\ (edit = NoEdit /\ \E i \in 1..Len(input) : input[i] # 0) => ~last.ret
        /\ (edit # NoEdit /\ data # edit.before /\ Transformed # Zero) => ~last.ret

C10_Witness ==
    /\ last.op = "verify_relationships"
    /\ ~last.ret
    /\ edit # NoEdit
    /\ edit.level = 1
    /\ Len(data) = 2
    /\ data[1] # Zero
    /\ add_mod(data[1].a, data[2].a) = U32(0)
    /\ add_mod(data[1].b, data[2].b) = U32(0)
(***************************************************************************)
(* Properties of the Haar pass                                             *)
(***************************************************************************)

\* the walk of the chunks has passed index g
Visited(g) ==
    /\ hpc # "idle"
    /\ chunk_of(g, CHUNK_SIZE) \notin pending
    /\ \A w \in Workers : g \notin workers[w].todo

\* C6: whatever the length, and in whatever order and interleaving the workers walk
\* the chunks, the index a worker sees in its chunk has the parity of the global
\* index, every element the walk has passed is negated if its global index is odd
\* and unchanged if it is even, and every other element is as it was given
C6_GlobalParity ==
    \A g \in Samples(hlen) :
        /\ hpc # "idle" => local_index(g, CHUNK_SIZE) % 2 = g % 2
        /\ hdata[g] = IF Visited(g) /\ g % 2 = 1
                      THEN GFp2(sub_mod(U32(0), element(g).a), sub_mod(U32(0), element(g).b))
                      ELSE element(g)

C6_Witness ==
    /\ hpc = "running"
    /\ hlen = 2 * TARGET_CHUNK_SIZE + 1000
    /\ 0 \in pending
    /\ Visited(2 * TARGET_CHUNK_SIZE + 1)
    /\ hdata[2 * TARGET_CHUNK_SIZE + 1] # element(2 * TARGET_CHUNK_SIZE + 1)
    /\ \E w \in Workers :
           /\ workers[w].chunk = 1
           /\ workers[w].todo = {2 * TARGET_CHUNK_SIZE - 2, 2 * TARGET_CHUNK_SIZE - 1}
    /\ hdata[TARGET_CHUNK_SIZE + 1] # element(TARGET_CHUNK_SIZE + 1)
    /\ hdata[TARGET_CHUNK_SIZE] = element(TARGET_CHUNK_SIZE)

(***************************************************************************)
(* Properties of the field functions                                       *)
(***************************************************************************)

\* One step of long division by p: r < p is the remainder of the bits above bit i of
\* x, and the result is the remainder of the bits from bit i up.
ResidueStep(x, i, r) ==
    LET doubled == WrappingAdd(r, r)
        bit     == U32(Bit(x, i))
        t       == WrappingAdd(doubled, bit)
    IN  IF Ge(t, P) THEN WrappingSub(t, P) ELSE t

\* the steps for the bits hi - 1 down to lo
RECURSIVE ResidueRange(_, _, _, _)
ResidueRange(x, lo, hi, r) ==
    IF hi <= lo THEN r
    ELSE IF hi = lo + 1 THEN ResidueStep(x, lo, r)
    ELSE LET mid == (lo + hi) \div 2
         IN  CHOOSE v \in {ResidueRange(x, lo, mid, m) :
                              m \in {ResidueRange(x, mid, hi, r)}} : TRUE

\* x mod p, for a word x of any width
Residue(x) == ResidueRange(x, 0, 8 * Len(x), U32(0))

\* the residues of the exact a + b, a - b and a * b
ExactSum(a, b) == Residue(WrappingAdd(Cast(a, 8), Cast(b, 8)))
ExactDifference(a, b) ==
    LET minus_b == WrappingSub(P, Residue(b))
    IN  Residue(WrappingAdd(Cast(a, 8), Cast(minus_b, 8)))
ExactProduct(a, b) == Residue(WideMul(a, b))

\* C7: add_mod, sub_mod and mul_mod of any two 32-bit values, and modp of any 64-bit
\* value, return a value below p that is congruent to the exact result
C7_TotalReduction ==
    /\ ret.fn = "add_mod" =>
           Lt(ret.value, P) /\ ret.value = ExactSum(args.a, args.b)
    /\ ret.fn = "sub_mod" =>
           Lt(ret.value, P) /\ ret.value = ExactDifference(args.a, args.b)
    /\ ret.fn = "mul_mod" =>
           Lt(ret.value, P) /\ ret.value = ExactProduct(args.a, args.b)
    /\ ret.fn = "modp" =>
           Lt(ret.value, P) /\ ret.value = Residue(args.x)

\* (group_order - (k mod group_order)) mod group_order, at its full width
FullNegativeExponent(k) ==
    LET k_mod == Rem(Cast(k, 8), GROUP_ORDER)
        diff  == WrappingSub(GROUP_ORDER, k_mod)
    IN  Rem(diff, GROUP_ORDER)

\* base to the power of a 64-bit exponent, by the steps of exp_phi
Power(base, e) ==
    LET init == [result |-> GFp2(U32(1), U32(0)), current |-> base]
    IN  CHOOSE r \in {exp_loop(ev, 0, BitLength(ev), s).result :
                         ev \in {e}, s \in {init}} : TRUE

\* C8: for every non-zero base and every k, exp_phi_inverse(base, k) is base to the
\* full exponent (group_order - k mod group_order) mod group_order, and its product
\* with exp_phi(base, k) is (1, 0)
C8_InversePower ==
    ret.fn = "exp_phi_inverse" =>
        /\ ret.value = Power(args.base, FullNegativeExponent(args.k))
        /\ mul_gfp2(exp_phi(args.base, args.k), ret.value) = One
==========================================================================
